---- MODULE Spec2Model ----
(***************************************************************************)
(* A model of the static-file HTTP server of this repository.              *)
(*                                                                         *)
(* Two generations of the protocol classes are in the source tree:          *)
(*   "utils"  : src/utils.py  (Response, ErrorResponse, RequestHandler,     *)
(*              Request)                                                    *)
(*   "server" : src/server.py (Response, RequestHandler, Request) together  *)
(*              with the connection handler MyWebServer.handle              *)
(* The variable impl selects which set of classes serves a behaviour; in   *)
(* both cases the bytes come through MyWebServer.handle, the only handler   *)
(* in the source tree.  MyWebServer.parse_request is called by nothing in   *)
(* the source tree; it is an action of its own, ParseRequest, and ends in   *)
(* states of its own that no step of MyWebServer.handle reaches.            *)
(*                                                                         *)
(* Text is modelled character by character: a Python str or bytes value is  *)
(* a sequence of strings, one per character or byte.  A printable ASCII     *)
(* character stands for itself; "\t" "\n" "\f" "\r" are HT LF FF CR; "VT"   *)
(* "FS" "GS" "RS" are the ASCII controls 0x0B 0x1C 0x1D 0x1E.  A byte of    *)
(* 0x80 or more is written as its two hexadecimal digits ("C3", "A9"); the  *)
(* bytes of the model are C2 C3 E2 (leading), 80 85 88 89 A8 A9             *)
(* (continuation) and FF (never valid UTF-8).  A non-ASCII str character is *)
(* written as the digits of its UTF-8 bytes: "C3A9" is U+00E9, "C389" is    *)
(* U+00C9, "C285" is U+0085, "E280A8" is U+2028.                            *)
(***************************************************************************)
EXTENDS Integers, Sequences, FiniteSets, TLC

VARIABLES impl, fs, template, data, pc, exc, req, resp, wire, opened, hops, nsent

vars == <<impl, fs, template, data, pc, exc, req, resp, wire, opened, hops, nsent>>

(***************************************************************************)
(* Python string primitives used by the source                              *)
(***************************************************************************)

\* str.startswith(p)
StartsWith(s, p) == Len(s) >= Len(p) /\ SubSeq(s, 1, Len(p)) = p

\* str.endswith(p)
EndsWith(s, p) == Len(s) >= Len(p) /\ SubSeq(s, Len(s) - Len(p) + 1, Len(s)) = p

\* str.find(sep, i) with 1-based positions; 0 when sep does not occur
RECURSIVE Find(_, _, _)
Find(s, sep, i) ==
    IF i + Len(sep) - 1 > Len(s) THEN 0
    ELSE IF SubSeq(s, i, i + Len(sep) - 1) = sep THEN i
    ELSE Find(s, sep, i + 1)

\* str.split(sep): every occurrence of sep separates two parts
RECURSIVE Split(_, _)
Split(s, sep) ==
    LET k == Find(s, sep, 1) IN
    IF k = 0 THEN <<s>>
    ELSE <<SubSeq(s, 1, k - 1)>> \o Split(SubSeq(s, k + Len(sep), Len(s)), sep)

\* sep.join(parts)
RECURSIVE Join(_, _)
Join(parts, sep) ==
    IF parts = <<>> THEN <<>>
    ELSE IF Len(parts) = 1 THEN parts[1]
    ELSE parts[1] \o sep \o Join(Tail(parts), sep)

\* the line boundaries of str.splitlines() besides CR LF: LF, CR, VT, FF, FS,
\* GS, RS, U+0085, U+2028, U+2029
LineBreaks == {"\n", "\r", "VT", "\f", "FS", "GS", "RS", "C285", "E280A8", "E280A9"}

\* str.splitlines(): no empty last line
RECURSIVE SplitLinesFrom(_, _)
SplitLinesFrom(s, cur) ==
    IF s = <<>> THEN (IF cur = <<>> THEN <<>> ELSE <<cur>>)
    ELSE IF Len(s) >= 2 /\ s[1] = "\r" /\ s[2] = "\n"
         THEN <<cur>> \o SplitLinesFrom(SubSeq(s, 3, Len(s)), <<>>)
    ELSE IF s[1] \in LineBreaks
         THEN <<cur>> \o SplitLinesFrom(Tail(s), <<>>)
    ELSE SplitLinesFrom(Tail(s), Append(cur, s[1]))

SplitLines(s) == SplitLinesFrom(s, <<>>)

LowerLetters == <<"a", "b", "c", "d", "e", "f", "g", "h", "i", "j", "k", "l", "m", "n", "o", "p", "q", "r", "s", "t", "u", "v", "w", "x", "y", "z">>
UpperLetters == <<"A", "B", "C", "D", "E", "F", "G", "H", "I", "J", "K", "L", "M", "N", "O", "P", "Q", "R", "S", "T", "U", "V", "W", "X", "Y", "Z">>

\* str.upper() of one character: a-z, U+00E8 and U+00E9 have an upper case
UpperChar(c) ==
    IF \E i \in 1..26 : LowerLetters[i] = c
    THEN UpperLetters[CHOOSE i \in 1..26 : LowerLetters[i] = c]
    ELSE IF c = "C3A8" THEN "C388"
    ELSE IF c = "C3A9" THEN "C389"
    ELSE c

Upper(s) == [i \in 1..Len(s) |-> UpperChar(s[i])]

Digits == <<"0", "1", "2", "3", "4", "5", "6", "7", "8", "9">>

\* str(n) for a natural number n, as the f-strings of build format it
RECURSIVE IntToStr(_)
IntToStr(n) ==
    IF n < 10 THEN <<Digits[n + 1]>>
    ELSE IntToStr(n \div 10) \o <<Digits[(n % 10) + 1]>>

\* the UTF-8 bytes of the model: leading bytes of two- and three-byte
\* characters, continuation bytes
Lead2 == {"C2", "C3"}
Lead3 == {"E2"}
Cont == {"80", "85", "88", "89", "A8", "A9"}

\* the UTF-8 bytes of one character
EncodeChar(c) ==
    IF Len(c) <= 2 THEN <<c>>
    ELSE IF \E p \in Lead2 \X Cont : p[1] \o p[2] = c
    THEN CHOOSE p \in Lead2 \X Cont : p[1] \o p[2] = c
    ELSE IF \E p \in Lead3 \X Cont \X Cont : p[1] \o p[2] \o p[3] = c
    THEN CHOOSE p \in Lead3 \X Cont \X Cont : p[1] \o p[2] \o p[3] = c
    ELSE <<c>>

\* str.encode(): UTF-8
RECURSIVE Encode(_)
Encode(s) == IF s = <<>> THEN <<>> ELSE EncodeChar(s[1]) \o Encode(Tail(s))

\* whether bytes.decode() succeeds: UTF-8 is well formed
RECURSIVE Decodable(_)
Decodable(b) ==
    IF b = <<>> THEN TRUE
    ELSE IF b[1] \in Lead2
         THEN Len(b) >= 2 /\ b[2] \in Cont /\ Decodable(SubSeq(b, 3, Len(b)))
    ELSE IF b[1] \in Lead3
         THEN Len(b) >= 3 /\ b[2] \in Cont /\ b[3] \in Cont /\ Decodable(SubSeq(b, 4, Len(b)))
    ELSE IF b[1] \in Cont \cup {"FF"} THEN FALSE
    ELSE Decodable(Tail(b))

\* bytes.decode() of decodable bytes
RECURSIVE Decode(_)
Decode(b) ==
    IF b = <<>> THEN <<>>
    ELSE IF b[1] \in Lead2 THEN <<b[1] \o b[2]>> \o Decode(SubSeq(b, 3, Len(b)))
    ELSE IF b[1] \in Lead3 THEN <<b[1] \o b[2] \o b[3]>> \o Decode(SubSeq(b, 4, Len(b)))
    ELSE <<b[1]>> \o Decode(Tail(b))

\* the bytes that bytes.strip() removes: HT, LF, VT, FF, CR and space
Whitespace == {"\t", "\n", "VT", "\f", "\r", " "}

\* bytes.strip(): drop leading and trailing ASCII whitespace
RECURSIVE LStrip(_)
LStrip(b) == IF b # <<>> /\ b[1] \in Whitespace THEN LStrip(Tail(b)) ELSE b

RECURSIVE RStrip(_)
RStrip(b) ==
    IF b # <<>> /\ b[Len(b)] \in Whitespace THEN RStrip(SubSeq(b, 1, Len(b) - 1)) ELSE b

Strip(b) == RStrip(LStrip(b))

\* os.path.join(a, b) of posixpath
PathJoin(a, b) ==
    IF StartsWith(b, <<"/">>) THEN b
    ELSE IF a = <<>> \/ EndsWith(a, <<"/">>) THEN a \o b
    ELSE a \o <<"/">> \o b

\* the component loop of posixpath.normpath
RECURSIVE NormComps(_, _, _)
NormComps(comps, acc, slashes) ==
    IF comps = <<>> THEN acc
    ELSE LET c == comps[1] IN
         IF c = <<>> \/ c = <<".">> THEN NormComps(Tail(comps), acc, slashes)
         ELSE IF c # <<".", ".">>
                 \/ (slashes = 0 /\ acc = <<>>)
                 \/ (acc # <<>> /\ acc[Len(acc)] = <<".", ".">>)
              THEN NormComps(Tail(comps), Append(acc, c), slashes)
         ELSE IF acc # <<>>
              THEN NormComps(Tail(comps), SubSeq(acc, 1, Len(acc) - 1), slashes)
         ELSE NormComps(Tail(comps), acc, slashes)

\* os.path.normpath of posixpath: lexical, no filesystem access
NormPath(p) ==
    IF p = <<>> THEN <<".">>
    ELSE LET slashes == IF ~StartsWith(p, <<"/">>) THEN 0
                        ELSE IF StartsWith(p, <<"/", "/">>) /\ ~StartsWith(p, <<"/", "/", "/">>) THEN 2
                        ELSE 1
             body == Join(NormComps(Split(p, <<"/">>), <<>>, slashes), <<"/">>)
             res == (IF slashes = 2 THEN <<"/", "/">> ELSE IF slashes = 1 THEN <<"/">> ELSE <<>>) \o body
         IN IF res = <<>> THEN <<".">> ELSE res

(***************************************************************************)
(* The environment: the filesystem and the error page template              *)
(***************************************************************************)

\* the document root of get_path and of the startswith re-check
DocRoot == <<"w", "w", "w">>

\* the names the model's filesystem can hold, as normalized relative paths
InsideNames ==
    { <<"w", "w", "w", "/", "i", "n", "d", "e", "x", ".", "h", "t", "m", "l">>, <<"w", "w", "w", "/", "s", "u", "b">>, <<"w", "w", "w", "/", "s", "u", "b", "/", "i", "n", "d", "e", "x", ".", "h", "t", "m", "l">>, <<"w", "w", "w", "/", "b", "a", "s", "e", ".", "c", "s", "s">>,
      <<"w", "w", "w", "/", "d", "a", "t", "a", ".", "b", "i", "n">>, <<"w", "w", "w", "/", "R", "E", "A", "D", "M", "E">> }

OutsideNames == { <<"s", "e", "c", "r", "e", "t", ".", "t", "x", "t">>, <<"w", "w", "w", "s", "e", "c", "r", "e", "t">>, <<"w", "w", "w", "s", "e", "c", "r", "e", "t", "/", "k", "e", "y", ".", "t", "x", "t">>, <<"w", "w", "w", "x">> }

FsNames == {DocRoot} \cup InsideNames \cup OutsideNames

\* the bytes of each name when it is a regular file
Content(p) ==
    CASE p = <<"w", "w", "w", "/", "i", "n", "d", "e", "x", ".", "h", "t", "m", "l">>     -> <<"<", "p", ">", "h", "i", "<", "/", "p", ">">>
      [] p = <<"w", "w", "w", "/", "s", "u", "b">>            -> <<"f">>
      [] p = <<"w", "w", "w", "/", "s", "u", "b", "/", "i", "n", "d", "e", "x", ".", "h", "t", "m", "l">> -> <<"<", "b", ">", "s", "u", "b", "<", "/", "b", ">">>
      [] p = <<"w", "w", "w", "/", "b", "a", "s", "e", ".", "c", "s", "s">>       -> <<"p", "{", "}">>
      [] p = <<"w", "w", "w", "/", "d", "a", "t", "a", ".", "b", "i", "n">>       -> <<"FF", "\r", "\n", "\r", "\n", "A9">>
      [] p = <<"w", "w", "w", "/", "R", "E", "A", "D", "M", "E">>         -> <<"r", "e", "a", "d", "\n", "m", "e">>
      [] p = <<"s", "e", "c", "r", "e", "t", ".", "t", "x", "t">>         -> <<"T", "O", "P">>
      [] p = <<"w", "w", "w", "s", "e", "c", "r", "e", "t", "/", "k", "e", "y", ".", "t", "x", "t">>  -> <<"K", "E", "Y">>
      [] p = <<"w", "w", "w", "x">>               -> <<"X">>
      [] OTHER                     -> <<>>

Kinds == {"none", "file", "dir"}

\* one filesystem: the root and three files in it always exist, the rest varies
MkFs(idx, sub, subidx, secret, sibling, wwwx) ==
    [p \in FsNames |->
        CASE p = <<"w", "w", "w", "/", "i", "n", "d", "e", "x", ".", "h", "t", "m", "l">>     -> idx
          [] p = <<"w", "w", "w", "/", "s", "u", "b">>            -> sub
          [] p = <<"w", "w", "w", "/", "s", "u", "b", "/", "i", "n", "d", "e", "x", ".", "h", "t", "m", "l">> -> subidx
          [] p = <<"s", "e", "c", "r", "e", "t", ".", "t", "x", "t">>         -> secret
          [] p = <<"w", "w", "w", "s", "e", "c", "r", "e", "t">>          -> sibling
          [] p = <<"w", "w", "w", "s", "e", "c", "r", "e", "t", "/", "k", "e", "y", ".", "t", "x", "t">>  -> (IF sibling = "dir" THEN "file" ELSE "none")
          [] p = <<"w", "w", "w", "x">>               -> wwwx
          [] p = DocRoot               -> "dir"
          [] OTHER                     -> "file"]

\* the filesystem states: every name is absent, a file or a directory, and
\* whatever exists lies in an existing directory
FsStates ==
    LET all == { MkFs(idx, sub, subidx, secret, sibling, wwwx) :
                    idx \in Kinds, sub \in Kinds, subidx \in Kinds,
                    secret \in Kinds, sibling \in {"none", "dir"},
                    wwwx \in {"none", "file"} }
    IN { f \in all : f[<<"w", "w", "w", "/", "s", "u", "b", "/", "i", "n", "d", "e", "x", ".", "h", "t", "m", "l">>] # "none" => f[<<"w", "w", "w", "/", "s", "u", "b">>] = "dir" }

\* os.path.isfile of a normalized relative path
IsFile(f, p) == p \in DOMAIN f /\ f[p] = "file"

\* '..', '../..', ...: the ancestors of the working directory
IsAncestor(p) == LET comps == Split(p, <<"/">>) IN \A i \in 1..Len(comps) : comps[i] = <<".", ".">>

\* os.path.isdir of a normalized relative path: the working directory and
\* its ancestors always exist
IsDir(f, p) == p = <<".">> \/ IsAncestor(p) \/ (p \in DOMAIN f /\ f[p] = "dir")

\* the file ErrorResponse.build_html opens, in the working directory
TemplateFile == <<"e", "r", "r", "o", "r", "_", "t", "e", "m", "p", "l", "a", "t", "e", ".", "h", "t", "m", "l">>

\* the contents of error_template.html: text with two {} placeholders
Templates ==
    { <<"<", "h", "1", ">", "{", "}", "<", "/", "h", "1", ">", "<", "p", ">", "{", "}", "<", "/", "p", ">">>,
      <<"C3A9">> \o <<"{", "}">> \o <<"C3A9">> \o <<"{", "}">> }

\* str.format(*args) for templates whose only fields are {}
RECURSIVE Format(_, _)
Format(t, args) ==
    IF t = <<>> THEN <<>>
    ELSE IF Len(t) >= 2 /\ t[1] = "{" /\ t[2] = "}"
         THEN args[1] \o Format(SubSeq(t, 3, Len(t)), Tail(args))
    ELSE <<t[1]>> \o Format(Tail(t), args)

(***************************************************************************)
(* Path lookup of open(), for paths that are not normalized                 *)
(***************************************************************************)

\* a place reached while walking a path: the root directory (abs), the
\* working directory or its ancestor number up (comps empty), a name below
\* the working directory (comps), or nothing at all (absent)
Place(absent, abs, up, comps) == [absent |-> absent, abs |-> abs, up |-> up, comps |-> comps]

\* what is at a place: "dir", "file" or "none"
PlaceKind(f, l) ==
    IF l.absent THEN "none"
    ELSE IF l.abs \/ l.comps = <<>> THEN "dir"
    ELSE IF Join(l.comps, <<"/">>) \in DOMAIN f THEN f[Join(l.comps, <<"/">>)]
    ELSE "none"

\* one component further: '' and '.' stay, '..' goes up, a name goes down;
\* the model's filesystem has names below the working directory only
StepTo(l, c) ==
    IF c = <<>> \/ c = <<".">> THEN l
    ELSE IF c = <<".", ".">>
         THEN IF l.abs THEN l
              ELSE IF l.comps = <<>> THEN Place(FALSE, FALSE, l.up + 1, <<>>)
              ELSE Place(FALSE, FALSE, 0, SubSeq(l.comps, 1, Len(l.comps) - 1))
    ELSE IF l.abs \/ l.up > 0 THEN Place(TRUE, FALSE, 0, <<>>)
    ELSE Place(FALSE, FALSE, 0, Append(l.comps, c))

\* the walk of the kernel: every component is looked up in a directory
RECURSIVE Walk(_, _, _, _)
Walk(f, comps, i, l) ==
    IF i > Len(comps) THEN [err |-> "none", place |-> l]
    ELSE IF PlaceKind(f, l) = "none" THEN [err |-> "FileNotFoundError", place |-> l]
    ELSE IF PlaceKind(f, l) = "file" THEN [err |-> "NotADirectoryError", place |-> l]
    ELSE Walk(f, comps, i + 1, StepTo(l, comps[i]))

\* open(path, 'rb').read(): the bytes, or the OSError open raises
OpenRead(f, path) ==
    LET w == Walk(f, Split(path, <<"/">>), 1, Place(FALSE, StartsWith(path, <<"/">>), 0, <<>>)) IN
    IF path = <<>> THEN [err |-> "FileNotFoundError", content |-> <<>>]
    ELSE IF w.err # "none" THEN [err |-> w.err, content |-> <<>>]
    ELSE IF PlaceKind(f, w.place) = "none" THEN [err |-> "FileNotFoundError", content |-> <<>>]
    ELSE IF PlaceKind(f, w.place) = "dir" THEN [err |-> "IsADirectoryError", content |-> <<>>]
    ELSE [err |-> "none", content |-> Content(Join(w.place.comps, <<"/">>))]

(***************************************************************************)
(* Python dict with insertion order, as a sequence of [name, value]         *)
(***************************************************************************)

HasKey(d, k) == \E i \in 1..Len(d) : d[i].name = k

\* d[k] = v: a new key goes last, an existing key keeps its place
DictSet(d, k, v) ==
    IF HasKey(d, k)
    THEN [i \in 1..Len(d) |-> IF d[i].name = k THEN [name |-> k, value |-> v] ELSE d[i]]
    ELSE Append(d, [name |-> k, value |-> v])

\* d[k] for a key that is present
DictGet(d, k) == d[CHOOSE i \in 1..Len(d) : d[i].name = k].value

\* a header value is a str or an int; f"{v}" formats either
StrVal(s) == [str |-> s]
IntVal(n) == [int |-> n]
FormatVal(v) == IF "int" \in DOMAIN v THEN IntToStr(v.int) ELSE v.str

(***************************************************************************)
(* src/utils.py                                                             *)
(***************************************************************************)

\* Response.codes
codes ==
    [c \in {404, 200, 405, 301, 400} |->
        CASE c = 404 -> <<"N", "o", "t", " ", "F", "o", "u", "n", "d">>
          [] c = 200 -> <<"O", "K">>
          [] c = 405 -> <<"M", "e", "t", "h", "o", "d", " ", "N", "o", "t", " ", "A", "l", "l", "o", "w", "e", "d">>
          [] c = 301 -> <<"M", "o", "v", "e", "d", " ", "P", "e", "r", "m", "a", "n", "e", "n", "t", "l", "y">>
          [] c = 400 -> <<"B", "a", "d", " ", "R", "e", "q", "u", "e", "s", "t">>]

\* Response(code, content, headers)
Response(code, content, headers) ==
    [code |-> code, content |-> content, headers |-> headers]

\* the header lines of build, one per header in insertion order
RECURSIVE HeaderLines(_, _)
HeaderLines(headers, eol) ==
    IF headers = <<>> THEN <<>>
    ELSE headers[1].name \o <<":", " ">> \o FormatVal(headers[1].value) \o eol
         \o HeaderLines(Tail(headers), eol)

\* Response.build
build(r) ==
    Encode(<<"H", "T", "T", "P", "/", "1", ".", "1", " ">> \o IntToStr(r.code) \o <<" ">> \o codes[r.code] \o <<"\r", "\n">>
           \o HeaderLines(r.headers, <<"\r", "\n">>)
           \o <<"\r", "\n">>)
    \o r.content

\* ErrorResponse.build_html
build_html(code, message, tpl) == Encode(Format(tpl, <<message, message>>))

\* ErrorResponse.get_headers
error_get_headers(content) ==
    LET h1 == DictSet(<<>>, <<"C", "o", "n", "t", "e", "n", "t", "-", "T", "y", "p", "e">>, StrVal(<<"t", "e", "x", "t", "/", "h", "t", "m", "l">>))
        h2 == DictSet(h1, <<"C", "o", "n", "t", "e", "n", "t", "-", "L", "e", "n", "g", "t", "h">>, IntVal(Len(content)))
    IN DictSet(h2, <<"C", "o", "n", "n", "e", "c", "t", "i", "o", "n">>, StrVal(<<"c", "l", "o", "s", "e">>))

\* ErrorResponse with Content-Length taken from the page before it is encoded
ErrorResponseStrLen(code, message, tpl) ==
    Response(code, build_html(code, message, tpl),
             error_get_headers(Format(tpl, <<message, message>>)))

\* ErrorResponse(code, message)
ErrorResponse(code, message, tpl) ==
    LET content == build_html(code, message, tpl)
    IN Response(code, content, error_get_headers(content))

\* RequestHandler.get_path
get_path(path) ==
    LET p1 == DocRoot \o path
        p2 == IF EndsWith(p1, <<"/">>) THEN PathJoin(p1, <<"i", "n", "d", "e", "x", ".", "h", "t", "m", "l">>) ELSE p1
    IN NormPath(p2)

\* path.split(".")[-1]
LastDotPart(path) == LET parts == Split(path, <<".">>) IN parts[Len(parts)]

\* RequestHandler.get_headers
get_headers(path, content) ==
    LET h1 == DictSet(<<>>, <<"C", "o", "n", "t", "e", "n", "t", "-", "L", "e", "n", "g", "t", "h">>, IntVal(Len(content)))
        h2 == DictSet(h1, <<"C", "o", "n", "n", "e", "c", "t", "i", "o", "n">>, StrVal(<<"c", "l", "o", "s", "e">>))
    IN IF LastDotPart(path) = <<"h", "t", "m", "l">> THEN DictSet(h2, <<"C", "o", "n", "t", "e", "n", "t", "-", "T", "y", "p", "e">>, StrVal(<<"t", "e", "x", "t", "/", "h", "t", "m", "l">>))
       ELSE IF LastDotPart(path) = <<"c", "s", "s">> THEN DictSet(h2, <<"C", "o", "n", "t", "e", "n", "t", "-", "T", "y", "p", "e">>, StrVal(<<"t", "e", "x", "t", "/", "c", "s", "s">>))
       ELSE h2

\* the re-check of handle that the file lies in the document root
InRootCheck(path) == StartsWith(path, DocRoot)

\* Redirect with the Location left as the requested path
RedirectSamePath(request) ==
    Response(301, <<>>, DictSet(<<>>, <<"L", "o", "c", "a", "t", "i", "o", "n">>, StrVal(request.path)))

\* the redirect of handle for a directory: the requested path plus '/'
Redirect(request) ==
    Response(301, <<>>, DictSet(<<>>, <<"L", "o", "c", "a", "t", "i", "o", "n">>, StrVal(request.path \o <<"/">>)))

\* RequestHandler.handle: the response, and every path it passed to open():
\* the file served, or the template of the error page
handle(request, f, tpl) ==
    IF ~request.valid
    THEN [resp |-> ErrorResponse(400, <<"E", "r", "r", "o", "r", " ", "4", "0", "0", ":", " ", "B", "a", "d", " ", "R", "e", "q", "u", "e", "s", "t">>, tpl), opened |-> {TemplateFile}]
    ELSE IF Upper(request.method) # <<"G", "E", "T">>
    THEN [resp |-> ErrorResponse(405, <<"E", "r", "r", "o", "r", " ", "4", "0", "5", ":", " ", "I", "n", "v", "a", "l", "i", "d", " ", "M", "e", "t", "h", "o", "d">>, tpl),
          opened |-> {TemplateFile}]
    ELSE LET path == get_path(request.path) IN
         IF ~IsFile(f, path)
         THEN IF IsDir(f, path)
              THEN [resp |-> Redirect(request), opened |-> {}]
              ELSE [resp |-> ErrorResponse(404, <<"E", "r", "r", "o", "r", " ", "4", "0", "4", ":", " ", "F", "i", "l", "e", " ", "n", "o", "t", " ", "f", "o", "u", "n", "d">>, tpl),
                    opened |-> {TemplateFile}]
         ELSE IF ~InRootCheck(path)
         THEN [resp |-> ErrorResponse(404, <<"E", "r", "r", "o", "r", " ", "4", "0", "4", ":", " ", "F", "i", "l", "e", " ", "n", "o", "t", " ", "f", "o", "u", "n", "d">>, tpl),
               opened |-> {TemplateFile}]
         ELSE LET content == Content(path)
              IN [resp |-> Response(200, content, get_headers(path, content)),
                  opened |-> {path}]

\* the header loop of Request.parse, from line i on; ok is FALSE when the
\* unpacking of split(': ') into key, val raises ValueError
RECURSIVE parse_headers(_, _, _)
parse_headers(lines, i, h) ==
    IF i > Len(lines) \/ lines[i] = <<>> THEN [ok |-> TRUE, headers |-> h]
    ELSE LET kv == Split(lines[i], <<":", " ">>) IN
         IF Len(kv) # 2 THEN [ok |-> FALSE, headers |-> h]
         ELSE parse_headers(lines, i + 1, DictSet(h, kv[1], kv[2]))

\* Request(data): the request, or the exception that escapes the constructor
Request(d) ==
    IF ~Decodable(d) THEN [exc |-> "UnicodeDecodeError"]
    ELSE LET lines == SplitLines(Decode(d))
             first == IF lines # <<>> THEN Split(lines[1], <<" ">>) ELSE <<>>
             hs    == parse_headers(lines, 2, <<>>)
         IN IF ~hs.ok THEN [exc |-> "ValueError"]
            ELSE IF lines # <<>> /\ Len(first) = 3
            THEN [exc |-> "none",
                  req |-> [valid |-> TRUE, method |-> first[1], path |-> first[2],
                           standard |-> first[3], headers |-> hs.headers]]
            ELSE [exc |-> "none", req |-> [valid |-> FALSE, headers |-> hs.headers]]

(***************************************************************************)
(* src/server.py                                                            *)
(***************************************************************************)

\* Response.codes of server.py
SrvCodes ==
    [c \in {404, 200, 405, 301} |->
        CASE c = 404 -> <<"N", "o", "t", " ", "F", "o", "u", "n", "d">>
          [] c = 200 -> <<"O", "K">>
          [] c = 405 -> <<"M", "e", "t", "h", "o", "d", " ", "N", "o", "t", " ", "A", "l", "l", "o", "w", "e", "d">>
          [] c = 301 -> <<"M", "o", "v", "e", "d", " ", "P", "e", "r", "m", "a", "n", "e", "n", "t", "l", "y">>]

\* Response.build of server.py
SrvBuild(r) ==
    Encode(<<"H", "T", "T", "P", "/", "1", ".", "1", " ">> \o IntToStr(r.code) \o <<" ">> \o SrvCodes[r.code] \o <<"\n">>
           \o HeaderLines(r.headers, <<"\n">>)
           \o <<"\n">>)
    \o r.content

\* RequestHandler.get_path of server.py
SrvGetPath(path) ==
    LET p1 == DocRoot \o path
        p2 == IF EndsWith(p1, <<"/">>) THEN PathJoin(p1, <<"i", "n", "d", "e", "x", ".", "h", "t", "m", "l">>) ELSE p1
    IN NormPath(p2)

\* RequestHandler.get_headers of server.py
SrvGetHeaders(path, content) ==
    LET h1 == DictSet(<<>>, <<"c", "o", "n", "t", "e", "n", "t", "-", "l", "e", "n", "g", "t", "h">>, IntVal(Len(content)))
    IN IF LastDotPart(path) = <<"h", "t", "m", "l">> THEN DictSet(h1, <<"c", "o", "n", "t", "e", "n", "t", "-", "t", "y", "p", "e">>, StrVal(<<"t", "e", "x", "t", "/", "h", "t", "m", "l">>))
       ELSE IF LastDotPart(path) = <<"c", "s", "s">> THEN DictSet(h1, <<"c", "o", "n", "t", "e", "n", "t", "-", "t", "y", "p", "e">>, StrVal(<<"t", "e", "x", "t", "/", "c", "s", "s">>))
       ELSE h1

\* RequestHandler.handle of server.py, with every path it passed to open();
\* Response(c) has no body and no headers
SrvHandle(request, f) ==
    IF Upper(request.method) # <<"G", "E", "T">>
    THEN [resp |-> Response(405, <<>>, <<>>), opened |-> {}]
    ELSE LET path == SrvGetPath(request.path) IN
         IF ~IsFile(f, path)
         THEN IF IsDir(f, path)
              THEN [resp |-> Response(301, <<>>,
                                      DictSet(<<>>, <<"L", "o", "c", "a", "t", "i", "o", "n">>, StrVal(request.path \o <<"/">>))),
                    opened |-> {}]
              ELSE [resp |-> Response(404, <<>>, <<>>), opened |-> {}]
         ELSE IF ~StartsWith(path, DocRoot)
         THEN [resp |-> Response(404, <<>>, <<>>), opened |-> {}]
         ELSE LET content == Content(path)
              IN [resp |-> Response(200, content, SrvGetHeaders(path, content)),
                  opened |-> {path}]

\* the header loop of Request.parse of server.py
RECURSIVE SrvParseHeaders(_, _, _)
SrvParseHeaders(lines, i, h) ==
    IF i > Len(lines) \/ lines[i] = <<>> THEN [ok |-> TRUE, headers |-> h]
    ELSE LET kv == Split(lines[i], <<":", " ">>) IN
         IF Len(kv) # 2 THEN [ok |-> FALSE, headers |-> h]
         ELSE SrvParseHeaders(lines, i + 1, DictSet(h, kv[1], kv[2]))

\* Request(data) of server.py: no valid flag, a start line that does not
\* unpack into three tokens raises
SrvRequest(d) ==
    IF ~Decodable(d) THEN [exc |-> "UnicodeDecodeError"]
    ELSE LET lines == SplitLines(Decode(d)) IN
         IF lines = <<>> THEN [exc |-> "IndexError"]
         ELSE LET first == Split(lines[1], <<" ">>)
                  hs    == SrvParseHeaders(lines, 2, <<>>)
              IN IF Len(first) # 3 \/ ~hs.ok THEN [exc |-> "ValueError"]
                 ELSE [exc |-> "none",
                       req |-> [method |-> first[1], path |-> first[2],
                                standard |-> first[3], headers |-> hs.headers]]

\* bytes.splitlines(): CR LF, LF and CR end a line; no empty last line
RECURSIVE BytesSplitLinesFrom(_, _)
BytesSplitLinesFrom(b, cur) ==
    IF b = <<>> THEN (IF cur = <<>> THEN <<>> ELSE <<cur>>)
    ELSE IF Len(b) >= 2 /\ b[1] = "\r" /\ b[2] = "\n"
         THEN <<cur>> \o BytesSplitLinesFrom(SubSeq(b, 3, Len(b)), <<>>)
    ELSE IF b[1] \in {"\r", "\n"}
         THEN <<cur>> \o BytesSplitLinesFrom(Tail(b), <<>>)
    ELSE BytesSplitLinesFrom(Tail(b), Append(cur, b[1]))

BytesSplitLines(b) == BytesSplitLinesFrom(b, <<>>)

\* bytes.upper(): the ASCII letters only
BytesUpper(b) ==
    [i \in 1..Len(b) |->
        IF \E j \in 1..26 : LowerLetters[j] = b[i]
        THEN UpperLetters[CHOOSE j \in 1..26 : LowerLetters[j] = b[i]]
        ELSE b[i]]

\* MyWebServer.parse_request: the exception it raises, or the bytes it hands
\* to sendall, and every path it passed to open()
parse_request(d, f) ==
    LET lines == BytesSplitLines(d)
        first == IF lines = <<>> THEN <<>> ELSE Split(lines[1], <<" ">>)
        Raise(e, o) == [exc |-> e, sent |-> <<>>, opened |-> o]
        Sent(b, o)  == [exc |-> "none", sent |-> b, opened |-> o]
    IN IF lines = <<>> THEN Raise("IndexError", {})
       ELSE IF Len(first) # 3 THEN Raise("ValueError", {})
       ELSE IF first[3] # <<"H", "T", "T", "P", "/", "1", ".", "1">> THEN Raise("AssertionError", {})
       ELSE IF BytesUpper(first[1]) # <<"G", "E", "T">> THEN Sent(<<"H", "T", "T", "P", "/", "1", ".", "1", " ", "4", "0", "5", " ", "M", "e", "t", "h", "o", "d", " ", "N", "o", "t", " ", "A", "l", "l", "o", "w", "e", "d">>, {})
       ELSE LET p1 == IF EndsWith(first[2], <<"/">>) THEN first[2] \o <<"i", "n", "d", "e", "x", ".", "h", "t", "m", "l">> ELSE first[2]
            IN IF ~Decodable(p1) THEN Raise("UnicodeDecodeError", {})
               ELSE LET path == PathJoin(DocRoot, Decode(p1))
                        file == OpenRead(f, path)
                    IN IF file.err = "FileNotFoundError"
                       THEN Sent(<<"H", "T", "T", "P", "/", "1", ".", "1", " ", "4", "0", "4", " ", "N", "o", "t", " ", "F", "o", "u", "n", "d">>, {path})
                       ELSE IF file.err # "none" THEN Raise(file.err, {path})
                       ELSE Sent(<<"H", "T", "T", "P", "/", "1", ".", "1", " ", "2", "0", "0", " ", "O", "K", "\n", "\n">> \o file.content, {path})

(***************************************************************************)
(* The requests offered to the server                                       *)
(***************************************************************************)

\* how many Location headers a client follows before it gives up
MaxHops == 2

CRLF == <<"\r", "\n">>

RequestPaths ==
    { <<"/">>, <<"/", "i", "n", "d", "e", "x", ".", "h", "t", "m", "l">>, <<"/", "b", "a", "s", "e", ".", "c", "s", "s">>, <<"/", "d", "a", "t", "a", ".", "b", "i", "n">>, <<"/", "R", "E", "A", "D", "M", "E">>, <<"/", "m", "i", "s", "s", "i", "n", "g", ".", "t", "x", "t">>,
      <<"/", "s", "u", "b">>, <<"/", "s", "u", "b", "/">>, <<"/", "s", "u", "b", "/", "i", "n", "d", "e", "x", ".", "h", "t", "m", "l">>, <<"/", "s", "u", "b", "/", ".", ".", "/", "i", "n", "d", "e", "x", ".", "h", "t", "m", "l">>,
      <<"/", ".", ".">>, <<"/", ".", ".", "/", "s", "e", "c", "r", "e", "t", ".", "t", "x", "t">>, <<"/", ".", ".", "/", ".", ".", "/", "s", "e", "c", "r", "e", "t", ".", "t", "x", "t">>, <<"/", ".", ".", "/", "w", "w", "w", "s", "e", "c", "r", "e", "t", "/", "k", "e", "y", ".", "t", "x", "t">>,
      <<"/", ".", ".", "/", ".", ".", "/", ".", ".">>, <<"x">>, <<"/", ".", ".", "/", "w", "w", "w", "/", "i", "n", "d", "e", "x", ".", "h", "t", "m", "l">> }

StartLines ==
    { <<"G", "E", "T", " ">> \o p \o <<" ", "H", "T", "T", "P", "/", "1", ".", "1">> : p \in RequestPaths }
    \cup { m \o <<" ">> \o p \o <<" ", "H", "T", "T", "P", "/", "1", ".", "1">> :
             m \in { <<"g", "e", "t">>, <<"P", "O", "S", "T">>, <<"p", "o", "s", "t">> },
             p \in { <<"/", "i", "n", "d", "e", "x", ".", "h", "t", "m", "l">>, <<"/", "m", "i", "s", "s", "i", "n", "g", ".", "t", "x", "t">>, <<"/", ".", ".", "/", "s", "e", "c", "r", "e", "t", ".", "t", "x", "t">>, <<"/", "s", "u", "b">> } }
    \cup { <<"G", "A", "R", "B", "A", "G", "E">>, <<"G", "E", "T", " ", "/">>, <<"G", "E", "T", " ", "/", " ", "H", "T", "T", "P", "/", "1", ".", "1", " ", "e", "x", "t", "r", "a">>, <<"G", "E", "T", " ", " ", "/", " ", "H", "T", "T", "P", "/", "1", ".", "1">>,
           <<"G", "E", "T", " ", "/", "i", "n", "d", "e", "x", ".", "h", "t", "m", "l", " ", "H", "T", "T", "P", "/", "1", ".", "0">> }

HeaderBlocks ==
    { <<"H", "o", "s", "t", ":", " ", "a", "\r", "\n", "\r", "\n">>,
      <<"H", "o", "s", "t", ":", " ", "a", "\r", "\n", "A", "c", "c", "e", "p", "t", ":", " ", "b", "\r", "\n", "\r", "\n">>,
      <<"H", "o", "s", "t", ":", " ", "a", "\r", "\n", "h", "o", "s", "t", ":", " ", "b", "\r", "\n", "H", "o", "s", "t", ":", " ", "c", "\r", "\n", "\r", "\n">>,
      <<"H", "o", "s", "t", ":", " ", "a", "\r", "\n", "\r", "\n", "B", "o", "d", "y", ":", " ", "x", "\r", "\n">>,
      <<"H", "o", "s", "t", ":", " ", "a">>,
      <<"D", "a", "t", "e", ":", " ", "a", ":", " ", "b", "\r", "\n", "\r", "\n">>,
      <<"H", "o", "s", "t", "\r", "\n", "\r", "\n">> }

\* the byte strings a client may send
RequestData ==
    { l \o CRLF \o CRLF : l \in StartLines }
    \cup { l \o CRLF \o h : l \in { <<"G", "E", "T", " ", "/", "i", "n", "d", "e", "x", ".", "h", "t", "m", "l", " ", "H", "T", "T", "P", "/", "1", ".", "1">>, <<"G", "A", "R", "B", "A", "G", "E">> },
                            h \in HeaderBlocks }
    \cup { <<>>, CRLF, <<"G", "E", "T", " ", "/", "i", "n", "d", "e", "x", ".", "h", "t", "m", "l", " ", "H", "T", "T", "P", "/", "1", ".", "1", "\n", "\n">>, <<"\r", "\n", "G", "E", "T", " ", "/", "i", "n", "d", "e", "x", ".", "h", "t", "m", "l", " ", "H", "T", "T", "P", "/", "1", ".", "1">>,
           <<"FF">>, <<"G", "E", "T", " ", "/">> \o <<"C3", "A9">> \o <<" ", "H", "T", "T", "P", "/", "1", ".", "1", "\r", "\n", "\r", "\n">>,
           <<"VT">>, <<"G", "E", "T", " ", "/", "i", "n", "d", "e", "x", ".", "h", "t", "m", "l", " ", "H", "T", "T", "P", "/", "1", ".", "1">> \o <<"VT">>,
           <<"G", "E", "T", " ", "/", "i", "n", "d", "e", "x", ".", "h", "t", "m", "l", " ", "H", "T", "T", "P", "/", "1", ".", "1">> \o <<"FS">> \o <<"H", "o", "s", "t", ":", " ", "a", "\r", "\n", "\r", "\n">>,
           <<"g">> \o <<"C3", "A9">> \o <<"t", " ", "/", " ", "H", "T", "T", "P", "/", "1", ".", "1", "\r", "\n", "\r", "\n">> }

\* the byte strings a caller may hand to parse_request: those of a client,
\* and request lines whose target has no leading slash
ParseRequestData ==
    RequestData
    \cup { <<"G", "E", "T", " ">> \o p \o <<" ", "H", "T", "T", "P", "/", "1", ".", "1">> :
             p \in { <<"i", "n", "d", "e", "x", ".", "h", "t", "m", "l">>, <<"s", "u", "b">>, <<"s", "u", "b", "/">>, <<"s", "u", "b", "/", "i", "n", "d", "e", "x", ".", "h", "t", "m", "l">>, <<"d", "a", "t", "a", ".", "b", "i", "n">>,
                     <<".", ".", "/", "s", "e", "c", "r", "e", "t", ".", "t", "x", "t">>, <<".", ".", "/", "w", "w", "w", "s", "e", "c", "r", "e", "t", "/", "k", "e", "y", ".", "t", "x", "t">>, <<".", ".", "/", "w", "w", "w", "x">>, <<".", ".", "/", ".", ".">>,
                     <<"b", "a", "s", "e", ".", "c", "s", "s", "/">>, <<"b", "a", "s", "e", ".", "c", "s", "s", "/", ".", ".", "/", "i", "n", "d", "e", "x", ".", "h", "t", "m", "l">>, <<"m", "i", "s", "s", "i", "n", "g", "/", ".", ".", "/", "i", "n", "d", "e", "x", ".", "h", "t", "m", "l">>,
                     <<"s", "u", "b", "/", ".", ".", "/", "i", "n", "d", "e", "x", ".", "h", "t", "m", "l">>, <<".", "/", "/", "i", "n", "d", "e", "x", ".", "h", "t", "m", "l">>, <<>>, <<"FF">> } }
    \cup { <<"G", "E", "T", " ", "i", "n", "d", "e", "x", ".", "h", "t", "m", "l", " ", "H", "T", "T", "P", "/", "1", ".", "1", "\r", "\n", "H", "o", "s", "t", ":", " ", "a", "\r", "\n", "\r", "\n">>, <<"G", "E", "T", " ", "i", "n", "d", "e", "x", ".", "h", "t", "m", "l", " ", "H", "T", "T", "P", "/", "1", ".", "1", "\r", "H", "o", "s", "t", ":", " ", "a">>,
           <<"g", "e", "t", " ", "i", "n", "d", "e", "x", ".", "h", "t", "m", "l", " ", "H", "T", "T", "P", "/", "1", ".", "1">>, <<"P", "O", "S", "T", " ", "i", "n", "d", "e", "x", ".", "h", "t", "m", "l", " ", "H", "T", "T", "P", "/", "1", ".", "1">>,
           <<"G", "E", "T", " ", "i", "n", "d", "e", "x", ".", "h", "t", "m", "l", " ", "H", "T", "T", "P", "/", "1", ".", "1">> \o <<"VT">> \o <<"H", "o", "s", "t", ":", " ", "a">>,
           <<"G", "E", "T", " ", "i", "n", "d", "e", "x", ".", "h", "t", "m", "l", " ", "h", "t", "t", "p", "/", "1", ".", "1">>, <<"\n", "G", "E", "T", " ", "i", "n", "d", "e", "x", ".", "h", "t", "m", "l", " ", "H", "T", "T", "P", "/", "1", ".", "1">> }

NoReq == [none |-> TRUE]
NoResp == [code |-> 0, content |-> <<>>, headers |-> <<>>]

(***************************************************************************)
(* The connection handler                                                   *)
(***************************************************************************)

Init ==
    /\ impl \in {"utils", "server"}
    /\ fs \in FsStates
    /\ template \in (IF impl = "utils" THEN Templates ELSE {<<"<", "h", "1", ">", "{", "}", "<", "/", "h", "1", ">", "<", "p", ">", "{", "}", "<", "/", "p", ">">>})
    /\ data = <<>>
    /\ pc = "idle"
    /\ exc = "none"
    /\ req = NoReq
    /\ resp = NoResp
    /\ wire = <<>>
    /\ opened = {}
    /\ hops = 0
    /\ nsent = 0

\* self.data = self.request.recv(1024).strip(); if self.data: ...
\* (every request offered is shorter than the 1024 bytes recv reads)
Accept(d, h) ==
    LET s == Strip(d) IN
    /\ data' = s
    /\ pc' = IF s = <<>> THEN "done" ELSE "received"
    /\ exc' = "none"
    /\ req' = NoReq
    /\ resp' = NoResp
    /\ wire' = <<>>
    /\ opened' = {}
    /\ hops' = h
    /\ nsent' = 0
    /\ UNCHANGED <<impl, fs, template>>

\* a client connects and sends a request to a new MyWebServer
Recv ==
    /\ pc = "idle"
    /\ \E d \in RequestData : Accept(d, 0)

\* MyWebServer.parse_request(data): a method of the handler class that no
\* step of the server calls; a caller hands it the bytes of a request
ParseRequest ==
    /\ pc = "idle"
    /\ \E d \in ParseRequestData :
          LET r == parse_request(d, fs) IN
          /\ data' = d
          /\ pc' = IF r.exc = "none" THEN "parse_request done" ELSE "parse_request raised"
          /\ exc' = r.exc
          /\ wire' = r.sent
          /\ nsent' = IF r.exc = "none" THEN 1 ELSE 0
          /\ opened' = r.opened
    /\ req' = NoReq
    /\ resp' = NoResp
    /\ hops' = 0
    /\ UNCHANGED <<impl, fs, template>>

\* the client that was answered 301 requests the Location it was given
Follow ==
    /\ pc = "done"
    /\ nsent = 1
    /\ resp.code = 301
    /\ hops < MaxHops
    /\ Accept(<<"G", "E", "T", " ">> \o DictGet(resp.headers, <<"L", "o", "c", "a", "t", "i", "o", "n">>).str \o <<" ", "H", "T", "T", "P", "/", "1", ".", "1">> \o CRLF \o CRLF,
              hops + 1)

\* req = Request(self.data)
Parse ==
    /\ pc = "received"
    /\ LET r == IF impl = "utils" THEN Request(data) ELSE SrvRequest(data) IN
       IF r.exc # "none"
       THEN /\ pc' = "crashed"
            /\ exc' = r.exc
            /\ req' = NoReq
       ELSE /\ pc' = "parsed"
            /\ exc' = "none"
            /\ req' = r.req
    /\ UNCHANGED <<impl, fs, template, data, resp, wire, opened, hops, nsent>>

\* response = RequestHandler().handle(req)
Handle ==
    /\ pc = "parsed"
    /\ LET h == IF impl = "utils" THEN handle(req, fs, template) ELSE SrvHandle(req, fs) IN
       /\ resp' = h.resp
       /\ opened' = h.opened
    /\ pc' = "handled"
    /\ UNCHANGED <<impl, fs, template, data, exc, req, wire, hops, nsent>>

\* self.request.sendall(response.build())
Send ==
    /\ pc = "handled"
    /\ wire' = IF impl = "utils" THEN build(resp) ELSE SrvBuild(resp)
    /\ nsent' = nsent + 1
    /\ pc' = "done"
    /\ UNCHANGED <<impl, fs, template, data, exc, req, resp, opened, hops>>

\* server.serve_forever(): the connection is over, answered or not, and the
\* server waits for the next one; nothing of a request outlives it
Close ==
    /\ pc \in {"done", "crashed", "parse_request done", "parse_request raised"}
    /\ pc' = "idle"
    /\ data' = <<>>
    /\ exc' = "none"
    /\ req' = NoReq
    /\ resp' = NoResp
    /\ wire' = <<>>
    /\ opened' = {}
    /\ hops' = 0
    /\ nsent' = 0
    /\ UNCHANGED <<impl, fs, template>>

Next == Recv \/ ParseRequest \/ Follow \/ Parse \/ Handle \/ Send \/ Close

Spec == Init /\ [][Next]_vars

(***************************************************************************)
(* Vocabulary of the properties                                             *)
(***************************************************************************)

\* handle has returned the response held in resp
Answered == pc = "handled" \/ (pc = "done" /\ nsent = 1)

\* a Request of server.py exists only if its start line had three tokens
ReqValid(r) == IF "valid" \in DOMAIN r THEN r.valid ELSE TRUE

IsGet(r) == ReqValid(r) /\ Upper(r.method) = <<"G", "E", "T">>

\* the path handle resolves for a request
Target(r) == IF impl = "utils" THEN get_path(r.path) ELSE SrvGetPath(r.path)

\* a normalized path that names something in the document root directory
InsideRoot(p) == StartsWith(p, <<"w", "w", "w", "/">>)

LowerChar(c) ==
    IF \E i \in 1..26 : UpperLetters[i] = c
    THEN LowerLetters[CHOOSE i \in 1..26 : UpperLetters[i] = c]
    ELSE c

\* ASCII case folding, for comparing header names
Lower(s) == [i \in 1..Len(s) |-> LowerChar(s[i])]

\* the headers of a response as name/value text, names compared without case
HeaderPairs(r) ==
    { <<Lower(r.headers[i].name), FormatVal(r.headers[i].value)>> : i \in 1..Len(r.headers) }

\* an error response: the status, and the three headers of an error page
\* around a body that is not empty
IsErrorResponse(r, c) ==
    /\ r.code = c
    /\ r.content # <<>>
    /\ HeaderPairs(r) = { <<<<"c", "o", "n", "t", "e", "n", "t", "-", "t", "y", "p", "e">>, <<"t", "e", "x", "t", "/", "h", "t", "m", "l">>>>,
                          <<<<"c", "o", "n", "t", "e", "n", "t", "-", "l", "e", "n", "g", "t", "h">>, IntToStr(Len(r.content))>>,
                          <<<<"c", "o", "n", "n", "e", "c", "t", "i", "o", "n">>, <<"c", "l", "o", "s", "e">>>> }

\* what handle returns for request r on filesystem f
HandleOn(r, f) ==
    IF impl = "utils" THEN handle(r, f, template).resp ELSE SrvHandle(r, f).resp

\* two filesystems that differ only outside the document root
SameInside(f, g) == \A p \in {DocRoot} \cup InsideNames : f[p] = g[p]

\* the first line of the received bytes does not split into three tokens
MalformedStart(d) ==
    LET lines == SplitLines(Decode(d)) IN
    lines = <<>> \/ Len(Split(lines[1], <<" ">>)) # 3

(***************************************************************************)
(* C1                                                                       *)
(***************************************************************************)

\* C1: whatever the request and the filesystem, the file handle opens for
\* the requested path (the template of an error page aside), and the file
\* whose contents a 200 response carries, lies inside the document root
\* directory www.
C1_OnlyRootOpened ==
    Answered =>
        /\ \A p \in opened \ {TemplateFile} : InsideRoot(p)
        /\ resp.code = 200 => InsideRoot(Target(req))

(***************************************************************************)
(* C2                                                                       *)
(***************************************************************************)

\* C2: a valid GET whose path resolves, through its '..' segments, to a place
\* outside the document root is answered 404, and the answer is the same on
\* every filesystem that differs from this one only outside www.
C2_TraversalIs404 ==
    (Answered /\ IsGet(req)
        /\ Find(req.path, <<".", ".">>, 1) > 0
        /\ Target(req) # DocRoot /\ ~InsideRoot(Target(req)))
    => /\ resp.code = 404
       /\ pc = "handled" => \A g \in FsStates : SameInside(fs, g) => HandleOn(req, g) = resp

(***************************************************************************)
(* C3                                                                       *)
(***************************************************************************)

\* C3: validation comes first and looks at the request alone: an invalid
\* request is answered with a 400 error response, a valid request whose
\* method is not GET with a 405 error response, on every filesystem; a valid
\* GET is answered neither 400 nor 405.
C3_ValidateFirst ==
    Answered =>
        IF ~ReqValid(req)
        THEN /\ IsErrorResponse(resp, 400)
             /\ pc = "handled" => \A g \in FsStates : HandleOn(req, g) = resp
        ELSE IF Upper(req.method) # <<"G", "E", "T">>
        THEN /\ IsErrorResponse(resp, 405)
             /\ pc = "handled" => \A g \in FsStates : HandleOn(req, g) = resp
        ELSE resp.code \notin {400, 405}

\* the statement of C3 for the classes of utils.py alone
C3_ValidateFirst_Utils == impl = "utils" => C3_ValidateFirst

(***************************************************************************)
(* C4                                                                       *)
(***************************************************************************)

\* C4: for received bytes whose start line does not split into three tokens,
\* whatever follows that line, constructing the Request raises nothing and
\* gives valid = FALSE, and the request is answered once, with 400.
C4_MalformedIs400 ==
    (data # <<>> /\ Decodable(data) /\ MalformedStart(data)) =>
        /\ pc # "crashed"
        /\ pc \in {"parsed", "handled", "done"} => ~ReqValid(req)
        /\ pc = "done" => (nsent = 1 /\ IsErrorResponse(resp, 400))

(***************************************************************************)
(* C5                                                                       *)
(***************************************************************************)

\* C5: utils.py answers a valid GET whose resolved target is not a regular
\* file with 301, an empty body and the single header Location = the path as
\* received plus '/', when the target is a directory, and with a 404 error
\* response otherwise.
C5_NotAFile ==
    (Answered /\ impl = "utils" /\ IsGet(req) /\ ~IsFile(fs, Target(req))) =>
        IF IsDir(fs, Target(req))
        THEN /\ resp.code = 301
             /\ resp.content = <<>>
             /\ resp.headers = <<[name |-> <<"L", "o", "c", "a", "t", "i", "o", "n">>, value |-> [str |-> req.path \o <<"/">>]]>>
        ELSE IsErrorResponse(resp, 404)

\* a GET for the directory www/sub has been answered with a redirect
C5_Witness ==
    /\ Answered /\ impl = "utils" /\ IsGet(req)
    /\ req.path = <<"/", "s", "u", "b">> /\ fs[<<"w", "w", "w", "/", "s", "u", "b">>] = "dir"
    /\ resp.code = 301

(***************************************************************************)
(* C6                                                                       *)
(***************************************************************************)

\* the extension of the last component of a path, <<>> when it has none
Extension(p) ==
    LET comps == Split(p, <<"/">>)
        base  == comps[Len(comps)]
        parts == Split(base, <<".">>)
    IN IF Len(parts) = 1 THEN <<>> ELSE parts[Len(parts)]

\* C6: a valid GET whose resolved target is a regular file inside the
\* document root is answered 200 with the file's bytes as body and the
\* headers Content-Length, Connection: close and, for .html and .css only, the
\* Content-Type of the extension.
C6_ServeFile ==
    (Answered /\ IsGet(req) /\ IsFile(fs, Target(req)) /\ InsideRoot(Target(req))) =>
        /\ resp.code = 200
        /\ resp.content = Content(Target(req))
        /\ HeaderPairs(resp) =
              { <<<<"c", "o", "n", "t", "e", "n", "t", "-", "l", "e", "n", "g", "t", "h">>, IntToStr(Len(Content(Target(req))))>>,
                <<<<"c", "o", "n", "n", "e", "c", "t", "i", "o", "n">>, <<"c", "l", "o", "s", "e">>>> }
              \cup (IF Extension(Target(req)) = <<"h", "t", "m", "l">>
                    THEN { <<<<"c", "o", "n", "t", "e", "n", "t", "-", "t", "y", "p", "e">>, <<"t", "e", "x", "t", "/", "h", "t", "m", "l">>>> }
                    ELSE IF Extension(Target(req)) = <<"c", "s", "s">>
                    THEN { <<<<"c", "o", "n", "t", "e", "n", "t", "-", "t", "y", "p", "e">>, <<"t", "e", "x", "t", "/", "c", "s", "s">>>> }
                    ELSE {})

\* the statement of C6 for the classes of utils.py alone
C6_ServeFile_Utils == impl = "utils" => C6_ServeFile

(***************************************************************************)
(* C7                                                                       *)
(***************************************************************************)

\* the reason phrases of the specification's status table
ReasonPhrase(c) ==
    CASE c = 200 -> <<"O", "K">>
      [] c = 301 -> <<"M", "o", "v", "e", "d", " ", "P", "e", "r", "m", "a", "n", "e", "n", "t", "l", "y">>
      [] c = 400 -> <<"B", "a", "d", " ", "R", "e", "q", "u", "e", "s", "t">>
      [] c = 404 -> <<"N", "o", "t", " ", "F", "o", "u", "n", "d">>
      [] c = 405 -> <<"M", "e", "t", "h", "o", "d", " ", "N", "o", "t", " ", "A", "l", "l", "o", "w", "e", "d">>

\* the wire format of the specification, CR LF after every line
RECURSIVE WireHeaders(_)
WireHeaders(hs) ==
    IF hs = <<>> THEN <<>>
    ELSE hs[1].name \o <<":", " ">> \o FormatVal(hs[1].value) \o CRLF \o WireHeaders(Tail(hs))

WireFormat(r) ==
    <<"H", "T", "T", "P", "/", "1", ".", "1", " ">> \o IntToStr(r.code) \o <<" ">> \o ReasonPhrase(r.code) \o CRLF
    \o WireHeaders(r.headers) \o CRLF \o r.content

\* an HTTP/1.1 reader: head and body part at the first empty line, lines end
\* in CR LF, a header parts at its first ': '
ReadWire(w) ==
    LET k == Find(w, CRLF \o CRLF, 1) IN
    IF k = 0 THEN [ok |-> FALSE]
    ELSE LET lines == Split(SubSeq(w, 1, k - 1), CRLF)
             status == Split(lines[1], <<" ">>)
         IN IF Len(status) < 3 \/ \E i \in 2..Len(lines) : Find(lines[i], <<":", " ">>, 1) = 0
            THEN [ok |-> FALSE]
            ELSE [ok |-> TRUE,
                  code |-> status[2],
                  headers |-> { <<SubSeq(lines[i], 1, Find(lines[i], <<":", " ">>, 1) - 1),
                                  SubSeq(lines[i], Find(lines[i], <<":", " ">>, 1) + 2, Len(lines[i]))>> :
                                i \in 2..Len(lines) },
                  body |-> SubSeq(w, k + 4, Len(w))]

\* C7: the bytes sent for a response are the status line, the headers in
\* insertion order and an empty line, each ended by CR LF, then the body
\* unchanged; reading them back gives the status, the headers and the body.
C7_WireFormat ==
    (pc = "done" /\ nsent = 1) =>
        /\ wire = WireFormat(resp)
        /\ ReadWire(wire).ok
        /\ ReadWire(wire).code = IntToStr(resp.code)
        /\ ReadWire(wire).headers =
              { <<resp.headers[i].name, FormatVal(resp.headers[i].value)>> :
                  i \in 1..Len(resp.headers) }
        /\ ReadWire(wire).body = resp.content

\* the statement of C7 for the classes of utils.py alone
C7_WireFormat_Utils == impl = "utils" => C7_WireFormat

(***************************************************************************)
(* C8                                                                       *)
(***************************************************************************)

\* the lines after the start line up to the first empty line
RECURSIVE BlockFrom(_, _)
BlockFrom(lines, i) ==
    IF i > Len(lines) \/ lines[i] = <<>> THEN <<>>
    ELSE <<lines[i]>> \o BlockFrom(lines, i + 1)

HeaderBlock(d) == BlockFrom(SplitLines(Decode(d)), 2)

KeyOf(line) == SubSeq(line, 1, Find(line, <<":", " ">>, 1) - 1)
ValueOf(line) == SubSeq(line, Find(line, <<":", " ">>, 1) + 2, Len(line))

\* the mapping a header block denotes: each line parts at its first ': ',
\* the last line of a key gives its value
BlockPairs(b) ==
    { <<KeyOf(b[i]), ValueOf(b[i])>> :
        i \in { j \in 1..Len(b) : \A l \in (j + 1)..Len(b) : KeyOf(b[l]) # KeyOf(b[j]) } }

\* C8: when every line of the header block contains ': ', parsing raises
\* nothing and the header mapping holds exactly the pairs of the block, each
\* line parted at its first ': ', keys in their casing, nothing from behind
\* the empty line.
C8_HeadersParsed ==
    (pc # "idle" /\ data # <<>> /\ Decodable(data) /\ ~MalformedStart(data)
        /\ \A i \in 1..Len(HeaderBlock(data)) : Find(HeaderBlock(data)[i], <<":", " ">>, 1) > 0)
    => /\ pc # "crashed"
       /\ pc \in {"parsed", "handled", "done"} =>
             { <<req.headers[i].name, req.headers[i].value>> : i \in 1..Len(req.headers) }
                = BlockPairs(HeaderBlock(data))

(***************************************************************************)
(* C9                                                                       *)
(***************************************************************************)

\* C9: in every response of utils.py a Content-Length header equals the byte
\* length of the body; 200, 400, 404 and 405 carry one, the error responses
\* together with Content-Type: text/html and Connection: close; 301 has an
\* empty body and no Content-Length.
C9_ContentLength ==
    (Answered /\ impl = "utils") =>
        /\ \A i \in 1..Len(resp.headers) :
              resp.headers[i].name = <<"C", "o", "n", "t", "e", "n", "t", "-", "L", "e", "n", "g", "t", "h">>
                 => resp.headers[i].value = [int |-> Len(resp.content)]
        /\ resp.code \in {200, 301, 400, 404, 405}
        /\ resp.code # 301 => HasKey(resp.headers, <<"C", "o", "n", "t", "e", "n", "t", "-", "L", "e", "n", "g", "t", "h">>)
        /\ resp.code \in {400, 404, 405} =>
              /\ { <<<<"C", "o", "n", "t", "e", "n", "t", "-", "T", "y", "p", "e">>, <<"t", "e", "x", "t", "/", "h", "t", "m", "l">>>>, <<<<"C", "o", "n", "n", "e", "c", "t", "i", "o", "n">>, <<"c", "l", "o", "s", "e">>>> }
                    \subseteq { <<resp.headers[i].name, FormatVal(resp.headers[i].value)>> :
                                  i \in 1..Len(resp.headers) }
        /\ resp.code = 301 => (resp.content = <<>> /\ ~HasKey(resp.headers, <<"C", "o", "n", "t", "e", "n", "t", "-", "L", "e", "n", "g", "t", "h">>))

\* a second request of a sequence has been answered with an error page whose
\* body holds a two-byte character
C9_Witness ==
    /\ Answered /\ impl = "utils" /\ hops = 1
    /\ resp.code = 404
    /\ \E i \in 1..Len(resp.content) : resp.content[i] = "C3"
    /\ HasKey(resp.headers, <<"C", "o", "n", "t", "e", "n", "t", "-", "L", "e", "n", "g", "t", "h">>)

(***************************************************************************)
(* C10                                                                      *)
(***************************************************************************)

\* C10: the request a client sends for the Location of a 301 is not answered
\* 301 again: it is answered 200 when the index.html of the directory is a
\* regular file and 404 otherwise.
C10_OneHop ==
    (Answered /\ hops >= 1) =>
        /\ resp.code # 301
        /\ resp.code = (IF IsFile(fs, Target(req)) THEN 200 ELSE 404)

====
